---- MODULE Spec2Model ----
(***************************************************************************)
(* Model of the people database interface (src/people/people.py): the      *)
(* PeopleDB store methods, the `add` and `delkey` command handlers and the *)
(* transaction decorator, run by concurrent callers that each own one      *)
(* database connection (PostgreSQL, READ COMMITTED, row locks taken by     *)
(* SELECT ... FOR UPDATE and DELETE), and the converters between schema    *)
(* versions 2 and 3, PersonConverter and PeopleConverter.                  *)
(***************************************************************************)
EXTENDS Integers, Sequences, FiniteSets, TLC

\* ---------------------------------------------------------------- bounds
\* Number of callers; each is one run of the script and runs one command.
NumProcs == 2

\* ------------------------------------------------------------ value sets
Procs == 1..NumProcs
NoProc == 0
Ids == {"alice", "bob"}
None == "None"
NoVal == "NoVal"
utcnow == "now"

allowed_statuses == {"disabled", "former", "founding", "guest", "invited", "later"}
allowed_reasons == {"coc", "guest", "inactivity", "request", "vetoed"}

\* Leaf paths of the part of a document other than statusHistory, and the
\* dotted keys the callers pass to setkey / delkey (as segment sequences).
Leaves == {<<"name">>, <<"minecraft", "uuid">>}
KeyArgs == {<<"name">>, <<"minecraft">>, <<"minecraft", "uuid">>, <<"favColor">>}
SetKeyArgs == Leaves
ValueArgs == {"v1"}

\* Arguments the callers try, one command after the other.
StatusArgs == allowed_statuses \cup {"bogus"}
ReasonArgs == allowed_reasons \cup {None, "", "bogus"}
ByArgs == {"alice", "carol"}
CreateStatusArgs == {"guest", "invited", "later"}
CreateByArgs == {"alice", "carol", None}

\* Arguments of the commands the callers run at the same time.
ConcIds == {"alice"}
ConcNewIds == {"bob"}
ConcStatusArgs == {"later", "former"}
ConcReasonArgs == {None, "vetoed"}
ConcByArgs == {"alice", "carol"}
ConcCreateStatusArgs == {"guest"}
ConcKeyArgs == {<<"name">>}

\* Arguments of the status command under fair scheduling.
LiveStatusArgs == {"later"}
LiveByArgs == {"alice"}

\* ------------------------------------------------------------- documents
Event(status, by, date, reason) ==
    [status |-> status, by |-> by, date |-> date, reason |-> reason]

NoFields == [l \in Leaves |-> NoVal]

Doc(history, fields) == [exists |-> TRUE, statusHistory |-> history, fields |-> fields]

\* The absence of a row (cursor.fetchone() returning None).
NoRow == [exists |-> FALSE, statusHistory |-> <<>>, fields |-> NoFields]

\* Python truthiness of an optional string argument (None and '' are falsy).
Truthy(x) == x \notin {None, ""}

IsPrefix(k, l) == Len(k) <= Len(l) /\ SubSeq(l, 1, Len(k)) = k

\* dpath.util.get(obj, key): the key names a leaf or a mapping above leaves.
HasPath(doc, key) == \E l \in Leaves : IsPrefix(key, l) /\ doc.fields[l] # NoVal

\* dpath.util.delete(obj, key): removes everything at or below key.
dpath_delete(doc, key) ==
    [doc EXCEPT !.fields = [l \in Leaves |-> IF IsPrefix(key, l) THEN NoVal ELSE doc.fields[l]]]

\* dpath.util.new(obj, key, data)
dpath_new(doc, key, data) == [doc EXCEPT !.fields[key] = data]

\* Envelopes the callers import: a v3 roster, one whose version the
\* converter does not support, and a v3 roster listing the people in the
\* opposite order.
ImportData == <<
    [version |-> 3,
     people |-> << [id |-> "bob", doc |-> Doc(<<Event("invited", "bob", utcnow, None)>>, NoFields)],
                   [id |-> "alice", doc |-> Doc(<<Event("founding", "alice", utcnow, None)>>, NoFields)] >>],
    [version |-> 4, people |-> <<>>],
    [version |-> 3,
     people |-> << [id |-> "alice", doc |-> Doc(<<Event("later", "alice", utcnow, None)>>, NoFields)],
                   [id |-> "bob", doc |-> Doc(<<Event("invited", "alice", utcnow, None)>>, NoFields)] >>] >>

\* ---------------------------------------------------------------- state
VARIABLES
    db,      \* committed rows of table people: wmbid -> document, or NoRow
    lock,    \* row locks: wmbid -> the caller whose open transaction holds it
    pc,      \* each caller's position
    args,    \* each caller's current (or last) call and its arguments
    obj,     \* person_modify_data's local `obj`, read under the row lock
    tx,      \* obj_import's open transaction: rows deleted and inserted so far
    result,  \* outcome of each caller's last finished call
    seen,    \* ids returned by each caller's last people_list
    pre,     \* the committed table when the caller's command started
    conv     \* the converter in use: its document, version and last result

vars == <<db, lock, pc, args, obj, tx, result, seen, pre, conv>>

Roster(table) == {i \in Ids : table[i] # NoRow}

\* people_list(): `if result: return [...]`, so an empty table gives None.
people_list(table) == [none |-> Roster(table) = {}, ids |-> Roster(table)]

NoArgs == [op |-> "none", uid |-> None, status |-> None, by |-> None,
           reason |-> None, key |-> <<>>, value |-> NoVal, data |-> 0]

NoTx == [scan |-> <<>>, deleted |-> {}, inserted |-> 0]

\* ------------------------------------------------------------ initial store
\* Stores the program can be in: every record has a non-empty history whose
\* adjacent events differ in status, and every `by` is a roster id.
Store0 == [i \in Ids |-> NoRow]
Store1 == [i \in Ids |->
             IF i = "alice"
             THEN Doc(<<Event("later", "alice", utcnow, None)>>,
                      [NoFields EXCEPT ![<<"name">>] = "v0"])
             ELSE NoRow]
Store2 == [i \in Ids |->
             IF i = "alice"
             THEN Doc(<<Event("founding", "alice", utcnow, None)>>,
                      [NoFields EXCEPT ![<<"minecraft", "uuid">>] = "v0"])
             ELSE Doc(<<Event("invited", "alice", utcnow, None),
                        Event("former", "alice", utcnow, "vetoed")>>, NoFields)]
InitStores == {Store0, Store1, Store2}

\* no converter has been constructed
NoConv == [cls |-> "none"]

Init ==
    /\ db \in InitStores
    /\ lock = [i \in Ids |-> NoProc]
    /\ pc = [p \in Procs |-> "idle"]
    /\ args = [p \in Procs |-> NoArgs]
    /\ obj = [p \in Procs |-> NoRow]
    /\ tx = [p \in Procs |-> NoTx]
    /\ result = [p \in Procs |-> "none"]
    /\ seen = [p \in Procs |-> {}]
    /\ pre = [p \in Procs |-> Store0]
    /\ conv = NoConv

\* ------------------------------------------------------------- exceptions
ValueErrors == {"ValueError:status", "ValueError:reason", "ValueError:noreason",
                "ValueError:by", "ValueError:same", "ValueError:exists"}
IsValueError(e) == e \in ValueErrors

\* An exception leaves the method.  Inside the `add` command's try block a
\* ValueError is caught and the handler deletes the record (lines 647-650);
\* every other exception, and every exception of the other commands,
\* ends the call.
Raise(p, e) ==
    /\ result' = [result EXCEPT ![p] = e]
    /\ pc' = [pc EXCEPT ![p] = IF args[p].op = "create" /\ IsValueError(e)
                               THEN "cr_delete" ELSE "done"]

Return(p) ==
    /\ result' = [result EXCEPT ![p] = "ok"]
    /\ pc' = [pc EXCEPT ![p] = "done"]

Goto(p, label) ==
    /\ pc' = [pc EXCEPT ![p] = label]
    /\ UNCHANGED result

StartCall(p, a) ==
    /\ pc[p] = "idle"
    /\ args' = [args EXCEPT ![p] = a]
    /\ pre' = [pre EXCEPT ![p] = db]

\* A committed DELETE of a row ends every SELECT ... FOR UPDATE that waits
\* for that row's lock with no row (READ COMMITTED re-checks the row it found).
WakeGone(label, q, gone) ==
    IF label = "md_wait" /\ args[q].uid \in gone THEN "md_gone" ELSE label

\* The command is over (db.disconnect(), or exit(1)) and its process ends.
\* Every caller is one run of the script, which executes one command.
exit_command(p) ==
    /\ pc[p] = "done"
    /\ pc' = [pc EXCEPT ![p] = "exited"]
    /\ args' = [args EXCEPT ![p] = NoArgs]
    /\ result' = [result EXCEPT ![p] = "none"]
    /\ pre' = [pre EXCEPT ![p] = Store0]
    /\ seen' = [seen EXCEPT ![p] = {}]
    /\ UNCHANGED <<db, lock, obj, tx, conv>>

\* ------------------------------------------------- person_modify_data
\* The modification functions _set_key, _del_key and _modify.
fn_raises(a, doc) == a.op = "delkey" /\ ~HasPath(doc, a.key)

status_item(a) == Event(a.status, a.by, utcnow, IF Truthy(a.reason) THEN a.reason ELSE None)

modification_function(a, doc) ==
    CASE a.op = "setkey" -> dpath_new(doc, a.key, a.value)
      [] a.op = "delkey" -> dpath_delete(doc, a.key)
      [] OTHER -> [doc EXCEPT !.statusHistory = Append(@, status_item(a))]

\* (the same statement without FOR UPDATE: the row is read, not locked)
select_plain(p, uid) ==
    /\ lock' = lock
    /\ obj' = [obj EXCEPT ![p] = db[uid]]

\* SELECT data FROM people WHERE wmbid = %s FOR UPDATE, row present and its
\* lock free: the caller takes the lock and reads the committed row.
select_for_update(p, uid) ==
    /\ lock' = [lock EXCEPT ![uid] = p]
    /\ obj' = [obj EXCEPT ![p] = db[uid]]

md_select(p) ==
    /\ pc[p] = "md_select"
    /\ LET uid == args[p].uid IN
         IF db[uid] = NoRow
         THEN Raise(p, "KeyError") /\ UNCHANGED <<lock, obj>>
         ELSE IF lock[uid] = NoProc
         THEN select_for_update(p, uid) /\ Goto(p, "md_update")
         ELSE Goto(p, "md_wait") /\ UNCHANGED <<lock, obj>>
    /\ UNCHANGED <<db, args, tx, seen, pre, conv>>

md_wait(p) ==
    /\ pc[p] = "md_wait"
    /\ lock[args[p].uid] = NoProc
    /\ select_for_update(p, args[p].uid)
    /\ Goto(p, "md_update")
    /\ UNCHANGED <<db, args, tx, seen, pre, conv>>

md_gone(p) ==
    /\ pc[p] = "md_gone"
    /\ Raise(p, "KeyError")
    /\ UNCHANGED <<db, lock, args, obj, tx, seen, pre, conv>>

\* obj = modification_function(person, obj); UPDATE ...; commit (or, when
\* the function raises, rollback).  Either way the transaction ends and the
\* row lock is released.
md_update(p) ==
    /\ pc[p] = "md_update"
    /\ LET uid == args[p].uid IN
         /\ IF fn_raises(args[p], obj[p])
            THEN Raise(p, "PathNotFound") /\ UNCHANGED db
            ELSE /\ db' = [db EXCEPT ![uid] = modification_function(args[p], obj[p])]
                 /\ Return(p)
         /\ lock' = [lock EXCEPT ![uid] = IF @ = p THEN NoProc ELSE @]
    /\ obj' = [obj EXCEPT ![p] = NoRow]
    /\ UNCHANGED <<args, tx, seen, pre, conv>>

\* ------------------------------------------------- person_append_status
\* (without the elif branch of line 179)
validate_status_no_elif(status, reason) ==
    IF status \notin allowed_statuses THEN "ValueError:status"
    ELSE IF status \in {"former", "disabled"}
    THEN IF ~Truthy(reason) \/ reason \notin allowed_reasons
         THEN "ValueError:reason" ELSE "ok"
    ELSE "ok"

validate_status(status, reason) ==
    IF status \notin allowed_statuses THEN "ValueError:status"
    ELSE IF status \in {"former", "disabled"}
    THEN IF ~Truthy(reason) \/ reason \notin allowed_reasons
         THEN "ValueError:reason" ELSE "ok"
    ELSE IF Truthy(reason) THEN "ValueError:noreason" ELSE "ok"

by_check(by, people) ==
    IF people.none THEN "TypeError"
    ELSE IF by \notin people.ids THEN "ValueError:by" ELSE "ok"

\* (the first event compared instead of the last)
same_status_first(history, status) == history[1].status = status

same_status(history, status) == history[Len(history)].status = status

history_check(row, status) ==
    IF row = NoRow THEN "KeyError"
    ELSE IF row.statusHistory = <<>> THEN "IndexError"
    ELSE IF same_status(row.statusHistory, status) THEN "ValueError:same" ELSE "ok"

person_append_status(p, uid, status, by, reason) ==
    /\ StartCall(p, [NoArgs EXCEPT !.op = "appendStatus", !.uid = uid,
                      !.status = status, !.by = by, !.reason = reason])
    /\ LET v == validate_status(status, reason) IN
         /\ pc' = [pc EXCEPT ![p] = IF v = "ok" THEN "as_list" ELSE "done"]
         /\ result' = [result EXCEPT ![p] = IF v = "ok" THEN "none" ELSE v]
    /\ UNCHANGED <<db, lock, obj, tx, seen, conv>>

as_list(p) ==
    /\ pc[p] = "as_list"
    /\ LET c == by_check(args[p].by, people_list(db)) IN
         IF c = "ok" THEN Goto(p, "as_history") ELSE Raise(p, c)
    /\ UNCHANGED <<db, lock, args, obj, tx, seen, pre, conv>>

as_history(p) ==
    /\ pc[p] = "as_history"
    /\ LET c == history_check(db[args[p].uid], args[p].status) IN
         IF c = "ok" THEN Goto(p, "md_select") ELSE Raise(p, c)
    /\ UNCHANGED <<db, lock, args, obj, tx, seen, pre, conv>>

\* ----------------------------------------------------- person_add_empty
\* Ids another caller's open import transaction has inserted / deleted.
people_of(d) == d.people
inserted_ids(q) == {people_of(ImportData[args[q].data])[k].id : k \in 1..tx[q].inserted}
insert_waits(p, uid) ==
    \E q \in Procs \ {p} : uid \in tx[q].deleted \/ (tx[q].inserted > 0 /\ uid \in inserted_ids(q))

\* the `add` command handler: db.person_add_empty(wmbid) preceded by the
\* handler's own checks (lines 631-641), followed by person_append_status.
add_command(p, wmbid, status, by) ==
    /\ StartCall(p, [NoArgs EXCEPT !.op = "create", !.uid = wmbid,
                      !.status = status, !.by = by])
    /\ LET e == IF status \notin {"guest", "invited"} THEN "exit:status"
                ELSE IF ~Truthy(by) THEN "exit:by" ELSE "ok" IN
         /\ pc' = [pc EXCEPT ![p] = IF e = "ok" THEN "cr_check" ELSE "done"]
         /\ result' = [result EXCEPT ![p] = IF e = "ok" THEN "none" ELSE e]
    /\ UNCHANGED <<db, lock, obj, tx, seen, conv>>

\* if wmbid in db.people_list(): ... exit(1)   (outside the try block)
cr_check(p) ==
    /\ pc[p] = "cr_check"
    /\ LET people == people_list(db) IN
         /\ pc' = [pc EXCEPT ![p] = IF ~people.none /\ args[p].uid \notin people.ids
                                    THEN "add_list" ELSE "done"]
         /\ result' = [result EXCEPT ![p] =
                IF people.none THEN "TypeError"
                ELSE IF args[p].uid \in people.ids THEN "exit:exists" ELSE "none"]
    /\ UNCHANGED <<db, lock, args, obj, tx, seen, pre, conv>>

person_add_empty(p, uid) ==
    /\ StartCall(p, [NoArgs EXCEPT !.op = "add", !.uid = uid])
    /\ Goto(p, "add_list")
    /\ UNCHANGED <<db, lock, obj, tx, seen, conv>>

exists_check(uid, people) ==
    IF people.none THEN "TypeError"
    ELSE IF uid \in people.ids THEN "ValueError:exists" ELSE "ok"

add_list(p) ==
    /\ pc[p] = "add_list"
    /\ LET c == exists_check(args[p].uid, people_list(db)) IN
         IF c = "ok" THEN Goto(p, "add_insert") ELSE Raise(p, c)
    /\ UNCHANGED <<db, lock, args, obj, tx, seen, pre, conv>>

\* INSERT INTO people ...; commit.  wmbid is the table's key: the INSERT
\* waits for an open transaction that deleted or inserted the same wmbid and
\* fails when a committed row has it.  In the add command the call of
\* person_append_status follows, starting with its argument checks.
add_insert(p) ==
    /\ pc[p] = "add_insert"
    /\ LET uid == args[p].uid IN
         /\ ~insert_waits(p, uid)
         /\ IF db[uid].exists
            THEN Raise(p, "IntegrityError") /\ UNCHANGED db
            ELSE /\ db' = [db EXCEPT ![uid] = Doc(<<>>, NoFields)]
                 /\ IF args[p].op = "create"
                    THEN LET v == validate_status(args[p].status, args[p].reason) IN
                           IF v = "ok" THEN Goto(p, "as_list") ELSE Raise(p, v)
                    ELSE Return(p)
    /\ UNCHANGED <<lock, args, obj, tx, seen, pre, conv>>

\* ---------------------------------------------------------- person_delete
person_delete(p, uid) ==
    /\ StartCall(p, [NoArgs EXCEPT !.op = "delete", !.uid = uid])
    /\ Goto(p, "pd_delete")
    /\ UNCHANGED <<db, lock, obj, tx, seen, conv>>

\* rows this committed DELETE removed drop out of every open DELETE's scan
unscan(t, gone) == [t EXCEPT !.scan = SelectSeq(@, LAMBDA i : i \notin gone)]

\* DELETE FROM people WHERE wmbid = %s; commit.  Run by person_delete and by
\* the add command's except clause (which keeps the error as its outcome).
delete_row(p) ==
    /\ pc[p] \in {"pd_delete", "cr_delete"}
    /\ LET uid == args[p].uid IN
         /\ lock[uid] = NoProc
         /\ db' = [db EXCEPT ![uid] = NoRow]
         /\ pc' = [q \in Procs |-> IF q = p THEN "done"
                                   ELSE IF db[uid].exists THEN WakeGone(pc[q], q, {uid})
                                   ELSE pc[q]]
         /\ tx' = [q \in Procs |-> IF db[uid].exists THEN unscan(tx[q], {uid}) ELSE tx[q]]
    /\ result' = [result EXCEPT ![p] = IF pc[p] = "pd_delete" THEN "ok" ELSE @]
    /\ UNCHANGED <<lock, args, obj, seen, pre, conv>>

\* ------------------------------------------- person_set_key, person_del_key
person_set_key(p, person, key, data) ==
    /\ StartCall(p, [NoArgs EXCEPT !.op = "setkey", !.uid = person, !.key = key, !.value = data])
    /\ Goto(p, "md_select")
    /\ UNCHANGED <<db, lock, obj, tx, seen, conv>>

person_del_key(p, person, key) ==
    /\ StartCall(p, [NoArgs EXCEPT !.op = "delkey", !.uid = person, !.key = key])
    /\ Goto(p, "md_select")
    /\ UNCHANGED <<db, lock, obj, tx, seen, conv>>

\* ------------------------------------------------------------- the readers
list_command(p) ==
    /\ StartCall(p, [NoArgs EXCEPT !.op = "list"])
    /\ seen' = [seen EXCEPT ![p] = people_list(db).ids]
    /\ Return(p)
    /\ UNCHANGED <<db, lock, obj, tx, conv>>

person_get_key(p, person, key) ==
    /\ StartCall(p, [NoArgs EXCEPT !.op = "getkey", !.uid = person, !.key = key])
    /\ pc' = [pc EXCEPT ![p] = "done"]
    /\ result' = [result EXCEPT ![p] =
           IF db[person].exists /\ HasPath(db[person], key) THEN "ok" ELSE "KeyError"]
    /\ UNCHANGED <<db, lock, obj, tx, seen, conv>>

\* --------------------------------------------------------------- obj_import
\* rows of the table in scan order
TableOrder == <<"alice", "bob">>
table_scan(table) == SelectSeq(TableOrder, LAMBDA i : table[i].exists)

\* json_import(string) -> obj_import(data): enters the transaction and
\* starts DELETE FROM people on the rows committed at that moment.
obj_import(p, d) ==
    /\ StartCall(p, [NoArgs EXCEPT !.op = "import", !.data = d])
    /\ tx' = [tx EXCEPT ![p] = [NoTx EXCEPT !.scan = table_scan(db)]]
    /\ Goto(p, "im_delete")
    /\ UNCHANGED <<db, lock, obj, seen, conv>>

\* (the transaction is abandoned, its row locks stay)
rollback_keep_locks(p) ==
    /\ tx' = [tx EXCEPT ![p] = NoTx]
    /\ UNCHANGED <<db, lock>>

\* The with-block of `transaction` is left by an exception: rollback.
\* Nothing of the transaction was ever visible; its row locks are released.
rollback(p) ==
    /\ lock' = [i \in Ids |-> IF lock[i] = p THEN NoProc ELSE lock[i]]
    /\ tx' = [tx EXCEPT ![p] = NoTx]
    /\ UNCHANGED db

\* (the DELETE committed on its own, as it is outside a transaction)
delete_autocommit(p, uid) ==
    /\ lock' = [lock EXCEPT ![uid] = p]
    /\ tx' = [tx EXCEPT ![p].scan = Tail(@), ![p].deleted = @ \cup {uid}]
    /\ db' = [db EXCEPT ![uid] = NoRow]

\* DELETE FROM people reaches the next row of its scan and locks it (the
\* deletion itself becomes visible at commit); it waits while another
\* transaction holds the row.
delete_next(p, uid) ==
    /\ lock' = [lock EXCEPT ![uid] = p]
    /\ tx' = [tx EXCEPT ![p].scan = Tail(@), ![p].deleted = @ \cup {uid}]
    /\ UNCHANGED db

im_delete(p) ==
    /\ pc[p] = "im_delete"
    /\ IF tx[p].scan = <<>>
       THEN Goto(p, "im_convert") /\ UNCHANGED <<db, lock, tx>>
       ELSE /\ lock[Head(tx[p].scan)] = NoProc
            /\ delete_next(p, Head(tx[p].scan))
            /\ Goto(p, "im_delete")
    /\ UNCHANGED <<args, obj, seen, pre, conv>>

\* PeopleConverter(data).get_version(3), for the envelopes of ImportData
get_version(d, version) ==
    IF d.version = version THEN "ok" ELSE "NotImplementedError"

im_convert(p) ==
    /\ pc[p] = "im_convert"
    /\ LET c == get_version(ImportData[args[p].data], 3) IN
         IF c = "ok"
         THEN Goto(p, "im_insert") /\ UNCHANGED <<db, lock, tx>>
         ELSE Raise(p, c) /\ rollback(p)
    /\ UNCHANGED <<args, obj, seen, pre, conv>>

\* the loop over data['people']: one INSERT per step; leaving the loop
\* leaves the with-block, which commits.
commit_import(p) ==
    LET people == people_of(ImportData[args[p].data])
        gone == tx[p].deleted IN
    /\ db' = [i \in Ids |->
                IF \E k \in 1..Len(people) : people[k].id = i
                THEN (CHOOSE r \in {people[k] : k \in 1..Len(people)} : r.id = i).doc
                ELSE IF i \in gone THEN NoRow ELSE db[i]]
    /\ lock' = [i \in Ids |-> IF lock[i] = p THEN NoProc ELSE lock[i]]
    /\ tx' = [q \in Procs |-> IF q = p THEN NoTx ELSE unscan(tx[q], gone)]
    /\ pc' = [q \in Procs |-> IF q = p THEN "done" ELSE WakeGone(pc[q], q, gone)]
    /\ result' = [result EXCEPT ![p] = "ok"]

im_insert(p) ==
    /\ pc[p] = "im_insert"
    /\ LET people == people_of(ImportData[args[p].data])
           k == tx[p].inserted + 1 IN
         IF k > Len(people)
         THEN commit_import(p)
         ELSE /\ ~insert_waits(p, people[k].id)
              /\ IF db[people[k].id].exists /\ people[k].id \notin tx[p].deleted
                 THEN Raise(p, "IntegrityError") /\ rollback(p)
                 ELSE /\ tx' = [tx EXCEPT ![p].inserted = k]
                      /\ Goto(p, "im_insert")
                      /\ UNCHANGED <<db, lock>>
    /\ UNCHANGED <<args, obj, seen, pre, conv>>

\* ------------------------------------------------------------ lock waits
\* The callers whose open transaction the blocked statement of p waits for:
\* SELECT ... FOR UPDATE and DELETE wait for the holder of the row lock,
\* INSERT for a transaction that deleted or inserted the same wmbid.
key_holders(p, uid) ==
    {q \in Procs \ {p} : uid \in tx[q].deleted \/ (tx[q].inserted > 0 /\ uid \in inserted_ids(q))}

waits_for(p) ==
    CASE pc[p] \in {"md_wait", "pd_delete", "cr_delete"} -> {lock[args[p].uid]} \ {NoProc, p}
      [] pc[p] = "im_delete" /\ tx[p].scan # <<>> -> {lock[Head(tx[p].scan)]} \ {NoProc, p}
      [] pc[p] = "im_insert" /\ tx[p].inserted < Len(people_of(ImportData[args[p].data])) ->
            key_holders(p, people_of(ImportData[args[p].data])[tx[p].inserted + 1].id)
      [] pc[p] = "add_insert" -> key_holders(p, args[p].uid)
      [] OTHER -> {}

RECURSIVE waits_closure(_, _)
waits_closure(waited, n) ==
    IF n = 0 THEN waited
    ELSE waits_closure(waited \cup UNION {waits_for(q) : q \in waited}, n - 1)

in_deadlock(p) == p \in waits_closure(waits_for(p), NumProcs)

\* PostgreSQL's deadlock check, run by a backend that has waited for
\* deadlock_timeout: when the wait is part of a cycle the statement fails.
\* psycopg2 raises TransactionRollbackError ("deadlock detected") out of
\* cur.execute; the with-block of `transaction` rolls back.
deadlock_detected(p) ==
    /\ pc[p] \in {"im_delete", "im_insert"}
    /\ in_deadlock(p)
    /\ Raise(p, "TransactionRollbackError")
    /\ rollback(p)
    /\ UNCHANGED <<args, obj, seen, pre, conv>>

\* ============================================================== converters
\* Documents of the converters are Python dicts: functions from the keys
\* present to their values.  The keys modelled are those the conversions
\* compute with (id, status, invitedBy, join_date, minecraft,
\* minecraft_previous, minecraftUUID, fav_item / statusHistory, minecraft,
\* base, _peopleV2Order) and name, one of the keys copied as they are.
EmptyDict == [k \in {} |-> None]
Has(d, k) == k \in DOMAIN d
Opt(present, k, v) == IF present THEN k :> v ELSE EmptyDict
Without(d, keys) == [k \in DOMAIN d \ keys |-> d[k]]

\* Date strings are ISO 8601 texts: a local time and a UTC offset.
\* iso8601.parse_date gives the instant.
DateStr(t, off) == [t |-> t, off |-> off]
parse_date(datestr) == datestr.t - datestr.off

\* datetime.datetime(2013, 11, 2, 17, 33, 45, tzinfo=utc) on the time axis of
\* the date strings below, and the instant of datetime.utcnow().
cutoff == 2
today == 4

\* Result of a call: the value returned, or the exception raised.
Returned(doc) == [err |-> "none", doc |-> doc]
Raised(e) == [err |-> e, doc |-> EmptyDict]

\* ------------------------------------------- PersonConverter._convert_v2_v3
\* `if not 'status' in oldp: oldp['status'] = 'later'`: the caller's
\* document itself gets the key.
set_default_status(oldp) ==
    IF Has(oldp, "status") THEN oldp ELSE oldp @@ ("status" :> "later")

\* (without 'later')
join_statuses_v2_no_later == {"founding", "postfreeze", "invited"}

\* the statuses whose invitedBy and join_date belong to the current event
join_statuses_v2 == {"founding", "later", "postfreeze", "invited"}

current_status(oldp) ==
    LET value == oldp["status"]
        joined == value \in join_statuses_v2 IN
    (IF value \in {"former", "founding", "invited", "later"} THEN "status" :> value
     ELSE IF value = "postfreeze" THEN "status" :> "later"
     ELSE IF value = "vetoed" THEN ("status" :> "former") @@ ("reason" :> "vetoed")
     ELSE EmptyDict)
    @@ Opt(Has(oldp, "invitedBy") /\ joined, "by", oldp["invitedBy"])
    @@ Opt(Has(oldp, "join_date") /\ joined, "date", oldp["join_date"])

previous_status(oldp) ==
    LET value == oldp["status"]
        joined == value \in join_statuses_v2 IN
    Opt(value = "former", "status", "later")
    @@ Opt(Has(oldp, "invitedBy") /\ ~joined, "by", oldp["invitedBy"])
    @@ Opt(Has(oldp, "join_date") /\ ~joined, "date", oldp["join_date"])

nicks_v2_v3(oldp) ==
    IF Has(oldp, "minecraft_previous")
    THEN oldp["minecraft_previous"] \o <<oldp["minecraft"]>>
    ELSE <<oldp["minecraft"]>>

\* The document returned for oldp (which already has its status key).
Person_convert_v2_v3(person_obj) ==
    LET oldp == set_default_status(person_obj)
        previous == previous_status(oldp)
        current == current_status(oldp) IN
    ("minecraft" :> (Opt(Has(oldp, "minecraft"), "nicks", nicks_v2_v3(oldp))
                      @@ Opt(Has(oldp, "minecraftUUID"), "uuid", oldp["minecraftUUID"])))
    @@ ("statusHistory" :> ((IF DOMAIN previous # {} THEN <<previous>> ELSE <<>>)
                             \o (IF DOMAIN current # {} THEN <<current>> ELSE <<>>)))
    @@ Opt(Has(oldp, "fav_item"), "base", << ("tunnelItem" :> oldp["fav_item"]) >>)
    @@ Opt(Has(oldp, "name"), "name", oldp["name"])

\* ------------------------------------------- PersonConverter._convert_v3_v2
\* `for base in value: if 'tunnelItem' in base: v2['fav_item'] = ...`: the
\* loop has no break, every entry with a tunnelItem assigns again.
RECURSIVE fav_item_loop(_, _)
fav_item_loop(v2, base) ==
    IF base = <<>> THEN v2
    ELSE fav_item_loop(IF Has(Head(base), "tunnelItem")
                       THEN Without(v2, {"fav_item"}) @@ ("fav_item" :> Head(base)["tunnelItem"])
                       ELSE v2,
                       Tail(base))

\* (the cutoff itself counted as after)
at_or_after_cutoff(dt) == dt >= cutoff

\* dt > datetime.datetime(2013, 11, 2, 17, 33, 45, tzinfo=utc)
after_cutoff(dt) == dt > cutoff

\* (without 'guest')
collapsed_statuses_no_guest == {"disabled"}

\* the v3 statuses that v2 can only record as 'former'
collapsed_statuses == {"disabled", "guest"}

\* curstatus = value[-1] and the status it gives
status_v3_v2(curstatus) ==
    LET status == IF Has(curstatus, "status") THEN curstatus["status"] ELSE None
        dated == Has(curstatus, "date")
        reason == IF Has(curstatus, "reason") THEN curstatus["reason"] ELSE None IN
    IF status \in {"former", "founding", "invited", "later"}
    THEN "status" :> (IF status = "later" /\ dated /\ after_cutoff(parse_date(curstatus["date"]))
                      THEN "postfreeze"
                      ELSE IF status = "former" /\ reason = "vetoed" THEN "vetoed"
                      ELSE status)
    ELSE IF status \in collapsed_statuses THEN "status" :> "former"
    ELSE EmptyDict

join_statuses_v3 == {"former", "founding", "later", "invited", "guest"}

\* `for item in value:` the first date found is the sort date; join_date and
\* invitedBy are each set once, by the first join event that has the key.
RECURSIVE history_loop(_, _)
history_loop(v2, value) ==
    IF value = <<>> THEN v2
    ELSE LET item == Head(value)
             join == Has(item, "status") /\ item["status"] \in join_statuses_v3 IN
         history_loop(
             v2 @@ Opt(Has(item, "date") /\ ~Has(v2, "SORT_DATE"), "SORT_DATE", parse_date(item["date"]))
                @@ Opt(join /\ Has(item, "date") /\ ~Has(v2, "join_date"), "join_date", item["date"])
                @@ Opt(join /\ Has(item, "by") /\ ~Has(v2, "invitedBy"), "invitedBy", item["by"]),
             Tail(value))

history_v3_v2(value) ==
    LET v2 == history_loop(status_v3_v2(value[Len(value)]), value) IN
    v2 @@ ("SORT_DATE" :> today)

minecraft_v3_v2(value) ==
    Opt(Has(value, "uuid"), "minecraftUUID", value["uuid"])
    @@ Opt(Has(value, "nicks"), "minecraft", value["nicks"][1])
    @@ Opt(Has(value, "nicks") /\ Len(value["nicks"]) >= 2, "minecraft_previous", Tail(value["nicks"]))

\* value[-1] of an empty statusHistory and value['nicks'][0] of an empty
\* nicks list raise IndexError.
Person_convert_v3_v2(uid, v3) ==
    IF \/ Has(v3, "statusHistory") /\ v3["statusHistory"] = <<>>
       \/ Has(v3, "minecraft") /\ Has(v3["minecraft"], "nicks") /\ v3["minecraft"]["nicks"] = <<>>
    THEN Raised("IndexError")
    ELSE Returned(
           ("id" :> uid)
           @@ (IF Has(v3, "base") THEN fav_item_loop(EmptyDict, v3["base"]) ELSE EmptyDict)
           @@ (IF Has(v3, "minecraft") THEN minecraft_v3_v2(v3["minecraft"]) ELSE EmptyDict)
           @@ Opt(Has(v3, "name"), "name", v3["name"])
           @@ (IF Has(v3, "statusHistory") THEN history_v3_v2(v3["statusHistory"]) ELSE EmptyDict))

\* PersonConverter(uid, person_obj, self_version).get_version(version): what
\* the call returns and what it leaves in person_obj.
Person_get_version(uid, person_obj, self_version, version) ==
    IF self_version = version THEN [out |-> Returned(person_obj), obj |-> person_obj]
    ELSE IF self_version = 2 /\ version = 3
    THEN [out |-> Returned(Person_convert_v2_v3(person_obj)), obj |-> set_default_status(person_obj)]
    ELSE IF self_version = 3 /\ version = 2
    THEN [out |-> Person_convert_v3_v2(uid, person_obj), obj |-> person_obj]
    ELSE [out |-> Raised("NotImplementedError"), obj |-> person_obj]

\* ------------------------------------------------------- PeopleConverter
\* A v2 roster is a list of documents; a v3 roster is a dict from wmbid to
\* document, kept (as Python keeps it) in insertion order: a sequence of
\* [id, doc] entries with distinct ids.
Entry(wmbid, doc) == [id |-> wmbid, doc |-> doc]
Envelope(version, people) == [version |-> version, people |-> people]

\* people[wmbid] = doc
dict_set(people, wmbid, doc) ==
    IF \E k \in 1..Len(people) : people[k].id = wmbid
    THEN [k \in 1..Len(people) |-> IF people[k].id = wmbid THEN Entry(wmbid, doc) ELSE people[k]]
    ELSE Append(people, Entry(wmbid, doc))

\* the loop of _convert_v2_v3; index counts the documents seen so far
RECURSIVE people_v2_v3_loop(_, _, _)
people_v2_v3_loop(people, rest, index) ==
    IF rest = <<>> THEN people
    ELSE LET person == Head(rest) IN
         people_v2_v3_loop(
             dict_set(people, person["id"],
                      ("_peopleV2Order" :> index) @@ Person_convert_v2_v3(person)),
             Tail(rest), index + 1)

People_convert_v2_v3(self_obj) ==
    Envelope(3, people_v2_v3_loop(<<>>, self_obj.people, 0))

\* list.sort(key=...): ascending and stable
sort_insert(s, x) ==
    LET n == Cardinality({i \in 1..Len(s) : s[i].key <= x.key}) IN
    SubSeq(s, 1, n) \o <<x>> \o SubSeq(s, n + 1, Len(s))

RECURSIVE list_sort(_)
list_sort(s) ==
    IF s = <<>> THEN <<>>
    ELSE sort_insert(list_sort(SubSeq(s, 1, Len(s) - 1)), s[Len(s)])

\* (always the fallback key)
sort_key_date(has_legacy_order, person) == person["SORT_DATE"]

sort_key(has_legacy_order, person) ==
    IF has_legacy_order THEN person["_peopleV2Order"] ELSE person["SORT_DATE"]

\* the documents of the first loop of _convert_v3_v2, before the sort
person_v3_v2(entry) ==
    LET r == Person_convert_v3_v2(entry.id, entry.doc) IN
    IF r.err # "none" THEN r
    ELSE Returned(Opt(Has(entry.doc, "_peopleV2Order"), "_peopleV2Order",
                      entry.doc["_peopleV2Order"]) @@ r.doc)

People_convert_v3_v2(self_obj) ==
    LET n == Len(self_obj.people)
        converted == [k \in 1..n |-> person_v3_v2(self_obj.people[k])]
        has_legacy_order == \A k \in 1..n : Has(self_obj.people[k].doc, "_peopleV2Order") IN
    IF \E k \in 1..n : converted[k].err # "none"
    THEN converted[CHOOSE k \in 1..n : /\ converted[k].err # "none"
                                       /\ \A j \in 1..(k - 1) : converted[j].err = "none"]
    ELSE IF \E k \in 1..n : ~Has(converted[k].doc, "SORT_DATE")
    THEN Raised("KeyError")
    ELSE LET v2_people == list_sort([k \in 1..n |->
                              [key |-> sort_key(has_legacy_order, converted[k].doc),
                               person |-> converted[k].doc]]) IN
         Returned(Envelope(2, [k \in 1..n |->
                      Without(v2_people[k].person, {"SORT_DATE", "_peopleV2Order"})]))

\* PeopleConverter(obj).get_version(version): what the call returns and what
\* it leaves in self.obj (a v2 document without status gets one).
People_get_version(self_obj, version) ==
    IF self_obj.version = version THEN [out |-> Returned(self_obj), obj |-> self_obj]
    ELSE IF self_obj.version = 2 /\ version = 3
    THEN [out |-> Returned(People_convert_v2_v3(self_obj)),
          obj |-> Envelope(2, [k \in 1..Len(self_obj.people) |-> set_default_status(self_obj.people[k])])]
    ELSE IF self_obj.version = 3 /\ version = 2
    THEN [out |-> People_convert_v3_v2(self_obj), obj |-> self_obj]
    ELSE [out |-> Raised("NotImplementedError"), obj |-> self_obj]

\* ------------------------------------------------- documents to convert
MaxHistory == 2
MaxNicks == 3
MaxPeople == 2
MaxConversions == 2

Versions == {2, 3}
Dates == {DateStr(1, 0), DateStr(2, 0), DateStr(3, 0), DateStr(3, 1)}
NickNames == <<"n1", "n2", "n3", "n4", "n5">>
Nicks(n) == SubSeq(NickNames, 1, n)

\* A key that may be missing, with each of its values.
Maybe(k, values) == {EmptyDict} \cup {k :> v : v \in values}

\* status events of v3 documents
EventsOf(statuses, bys, dates, reasons) ==
    {s @@ b @@ d @@ r : s \in statuses, b \in bys, d \in dates, r \in reasons}

LastEvents ==
    EventsOf({"status" :> s : s \in {"founding", "invited", "later", "guest"}},
             Maybe("by", {"b1", "b2"}), Maybe("date", Dates), {EmptyDict})
    \cup EventsOf({"status" :> s : s \in {"former", "disabled"}},
                  Maybe("by", {"b1", "b2"}), Maybe("date", Dates),
                  {"reason" :> r : r \in {"vetoed", "request"}})

EarlierEvents ==
    EventsOf({"status" :> "later"}, Maybe("by", {"b1"}), Maybe("date", {DateStr(3, 0)}), {EmptyDict})
    \cup {("status" :> "disabled") @@ ("by" :> "b1") @@ ("date" :> DateStr(1, 0)) @@ ("reason" :> "coc"),
          ("by" :> "b2") @@ ("date" :> DateStr(2, 0))}

RECURSIVE Histories(_)
Histories(n) ==
    IF n = 0 THEN {<<>>}
    ELSE IF n = 1 THEN {<<e>> : e \in LastEvents}
    ELSE {<<e>> \o h : e \in EarlierEvents, h \in Histories(n - 1)}

Bases == {<<>>, <<"tunnelItem" :> "x">>, <<"tunnelItem" :> "x", "tunnelItem" :> "y">>,
          <<EmptyDict, "tunnelItem" :> "y", EmptyDict>>,
          <<"tunnelItem" :> "y", EmptyDict, "tunnelItem" :> "x">>}

\* v3 documents: every history, and one history with the other keys
V3Docs ==
    {"statusHistory" :> h : h \in UNION {Histories(n) : n \in 0..MaxHistory}}
    \cup {("statusHistory" :> << ("status" :> "later") @@ ("by" :> "b1") >>) @@ m @@ b @@ nm :
            m \in Maybe("minecraft", {u @@ n : u \in Maybe("uuid", {"u1"}),
                                               n \in Maybe("nicks", {Nicks(k) : k \in 0..MaxNicks})}),
            b \in Maybe("base", Bases),
            nm \in Maybe("name", {"Alice"})}
    \cup {EmptyDict}

\* v2 documents
V2Docs ==
    {("id" :> "alice") @@ s @@ b @@ d @@ m @@ f :
       s \in Maybe("status", {"former", "founding", "invited", "later", "postfreeze", "vetoed", "bogus"}),
       b \in Maybe("invitedBy", {"b1"}),
       d \in Maybe("join_date", {DateStr(1, 0), DateStr(3, 0)}),
       m \in {EmptyDict} \cup {("minecraft" :> NickNames[MaxNicks + 1]) @@ mp :
                                mp \in Maybe("minecraft_previous", {Nicks(k) : k \in 0..(MaxNicks - 1)})},
       f \in Maybe("fav_item", {"x"})}

\* rosters: v2 lists and v3 dicts of up to MaxPeople documents, distinct ids
RosterIds == {"alice", "bob", "carol"}
IdLists(n) == {l \in [1..n -> RosterIds] : \A i, j \in 1..n : i # j => l[i] # l[j]}

V2Rest == {s @@ d : s \in Maybe("status", {"later", "former", "bogus"}),
                    d \in Maybe("join_date", {DateStr(1, 0), DateStr(3, 0)})}

V3Rest == {("statusHistory" :> << ("status" :> "later") @@ d >>) @@ o :
              d \in Maybe("date", {DateStr(1, 0), DateStr(3, 0)}),
              o \in Maybe("_peopleV2Order", {0, 1})}
          \cup {"statusHistory" :> <<>>, EmptyDict}

V2Rosters ==
    {Envelope(2, [k \in 1..Len(ids) |-> ("id" :> ids[k]) @@ rest[k]]) :
       <<ids, rest>> \in UNION {IdLists(n) \X [1..n -> V2Rest] : n \in 1..MaxPeople}}

V3Rosters ==
    {Envelope(3, [k \in 1..Len(ids) |-> Entry(ids[k], rest[k])]) :
       <<ids, rest>> \in UNION {IdLists(n) \X [1..n -> V3Rest] : n \in 1..MaxPeople}}

\* ------------------------------------------------------ converter state
\* PersonConverter(uid, person_obj, version) / PeopleConverter(obj): the
\* document held, and the calls of get_version made so far, each with the
\* document as it was given, as it is after the call, and the result.
Converter(cls, uid, doc, version) ==
    [cls |-> cls, uid |-> uid, version |-> version, obj |-> doc, calls |-> <<>>]

Converters ==
    {Converter("PersonConverter", "alice", d, 2) : d \in V2Docs}
    \cup {Converter("PersonConverter", "alice", d, 3) : d \in V3Docs}
    \cup {Converter("PeopleConverter", None, d, d.version) : d \in V2Rosters \cup V3Rosters}

Call(from, to, given, r) ==
    [from |-> from, to |-> to, given |-> given, after |-> r.obj, out |-> r.out]

\* The result of one call is what the next converter is built on.
Converted(version, r) ==
    [conv EXCEPT !.calls = Append(@, Call(conv.version, version, conv.obj, r)),
                 !.obj = IF r.out.err = "none" THEN r.out.doc ELSE r.obj,
                 !.version = IF r.out.err = "none" THEN version ELSE @]

CanConvert(cls) ==
    /\ conv.cls = cls
    /\ Len(conv.calls) < MaxConversions
    /\ \A k \in 1..Len(conv.calls) : conv.calls[k].out.err = "none"

PersonConverter_get_version(version) ==
    /\ CanConvert("PersonConverter")
    /\ conv' = Converted(version, Person_get_version(conv.uid, conv.obj, conv.version, version))
    /\ UNCHANGED <<db, lock, pc, args, obj, tx, result, seen, pre>>

PeopleConverter_get_version(version) ==
    /\ CanConvert("PeopleConverter")
    /\ conv' = Converted(version, People_get_version(conv.obj, version))
    /\ UNCHANGED <<db, lock, pc, args, obj, tx, result, seen, pre>>

InitConv ==
    /\ db = Store0
    /\ lock = [i \in Ids |-> NoProc]
    /\ pc = [p \in Procs |-> "idle"]
    /\ args = [p \in Procs |-> NoArgs]
    /\ obj = [p \in Procs |-> NoRow]
    /\ tx = [p \in Procs |-> NoTx]
    /\ result = [p \in Procs |-> "none"]
    /\ seen = [p \in Procs |-> {}]
    /\ pre = [p \in Procs |-> Store0]
    /\ conv \in Converters

NextConv ==
    \/ \E version \in Versions : PersonConverter_get_version(version)
    \/ \E version \in Versions : PeopleConverter_get_version(version)

SpecConv == InitConv /\ [][NextConv]_vars

\* ------------------------------------------------------------ specification
\* The steps inside a command (everything but its start).
Inner(p) ==
    \/ as_list(p)
    \/ as_history(p)
    \/ md_select(p)
    \/ md_update(p)
    \/ cr_check(p)
    \/ add_list(p)
    \/ add_insert(p)
    \/ delete_row(p)
    \/ im_delete(p)
    \/ im_convert(p)
    \/ im_insert(p)
    \/ exit_command(p)

\* Concurrent callers: each caller starts one command, with arguments from
\* the Conc sets, and any caller may take its next step; a caller may find
\* a row locked.
Step(p) ==
    \/ \E uid \in ConcIds, status \in ConcStatusArgs, by \in ConcByArgs, reason \in ConcReasonArgs :
          person_append_status(p, uid, status, by, reason)
    \/ \E wmbid \in ConcNewIds, status \in ConcCreateStatusArgs, by \in ConcByArgs :
          add_command(p, wmbid, status, by)
    \/ \E uid \in ConcNewIds : person_add_empty(p, uid)
    \/ \E uid \in ConcIds : person_delete(p, uid)
    \/ \E person \in ConcIds, key \in ConcKeyArgs, data \in ValueArgs : person_set_key(p, person, key, data)
    \/ \E person \in ConcIds, key \in ConcKeyArgs : person_del_key(p, person, key)
    \/ list_command(p)
    \/ \E person \in ConcIds, key \in ConcKeyArgs : person_get_key(p, person, key)
    \/ \E d \in 1..Len(ImportData) : obj_import(p, d)
    \/ Inner(p)
    \/ md_wait(p)
    \/ md_gone(p)
    \/ deadlock_detected(p)

Next == \E p \in Procs : Step(p)

Spec == Init /\ [][Next]_vars

\* Callers that do not overlap: the commands run one after the other, each
\* from its start to its exit, with every argument of the Args sets.
Alone(p) == \A q \in Procs \ {p} : pc[q] = IF q < p THEN "exited" ELSE "idle"

StepSeq(p) ==
    \/ \E uid \in Ids, status \in StatusArgs, by \in ByArgs, reason \in ReasonArgs :
          Alone(p) /\ person_append_status(p, uid, status, by, reason)
    \/ \E wmbid \in Ids, status \in CreateStatusArgs, by \in CreateByArgs :
          Alone(p) /\ add_command(p, wmbid, status, by)
    \/ \E uid \in Ids : Alone(p) /\ person_add_empty(p, uid)
    \/ \E uid \in Ids : Alone(p) /\ person_delete(p, uid)
    \/ \E person \in Ids, key \in SetKeyArgs, data \in ValueArgs :
          Alone(p) /\ person_set_key(p, person, key, data)
    \/ \E person \in Ids, key \in KeyArgs : Alone(p) /\ person_del_key(p, person, key)
    \/ Alone(p) /\ list_command(p)
    \/ \E person \in Ids, key \in KeyArgs : Alone(p) /\ person_get_key(p, person, key)
    \/ \E d \in 1..Len(ImportData) : Alone(p) /\ obj_import(p, d)
    \/ Inner(p)

NextSeq == \E p \in Procs : StepSeq(p)

SpecSeq == Init /\ [][NextSeq]_vars

\* The mutate-based operations and imports under fair scheduling: a caller
\* that can take its next step (its statement is not blocked) takes it.
Proceed(p) ==
    \/ as_list(p)
    \/ as_history(p)
    \/ md_select(p)
    \/ md_wait(p)
    \/ md_gone(p)
    \/ md_update(p)
    \/ im_delete(p)
    \/ im_convert(p)
    \/ im_insert(p)
    \/ deadlock_detected(p)
    \/ exit_command(p)

StepLive(p) ==
    \/ \E uid \in ConcIds, status \in LiveStatusArgs, by \in LiveByArgs :
          person_append_status(p, uid, status, by, None)
    \/ \E person \in ConcIds, key \in ConcKeyArgs, data \in ValueArgs : person_set_key(p, person, key, data)
    \/ \E person \in ConcIds, key \in ConcKeyArgs : person_del_key(p, person, key)
    \/ \E d \in 1..Len(ImportData) : obj_import(p, d)
    \/ Proceed(p)

NextLive == \E p \in Procs : StepLive(p)

Fairness == \A p \in Procs : WF_vars(Proceed(p))

SpecLive == Init /\ [][NextLive]_vars /\ Fairness

\* ==================================================================== claims
Last(h) == h[Len(h)]
Done(p, op) == pc[p] = "done" /\ args[p].op = op

\* A caller's successful append commits in this step.
AppendCommits(p) ==
    /\ pc[p] = "md_update" /\ args[p].op = "appendStatus"
    /\ pc'[p] = "done" /\ result'[p] = "ok"

\* C1: concurrent appendStatus calls on one record are linearized.  Every
\* successful append commits the committed history of that moment plus its
\* own event, so no append overwrites another one; and when two callers'
\* overlapping appends to the same record have both succeeded, the history
\* is two events longer than before the first of them started and contains
\* both appended events.
C1_AppendStep ==
    \A p \in Procs :
        AppendCommits(p) =>
            db'[args[p].uid].statusHistory =
                Append(db[args[p].uid].statusHistory, status_item(args[p]))

C1_BothDone(p, q) ==
    /\ p # q
    /\ \A r \in Procs \ {p, q} : pc[r] = "idle"
    /\ Done(p, "appendStatus") /\ Done(q, "appendStatus")
    /\ args[p].uid = args[q].uid
    /\ result[p] = "ok" /\ result[q] = "ok"

C1_TwoAppends ==
    \A p, q \in Procs :
        C1_BothDone(p, q) =>
            LET hp == pre[p][args[p].uid].statusHistory
                hq == pre[q][args[p].uid].statusHistory
                old == IF Len(hp) <= Len(hq) THEN hp ELSE hq
                new == db[args[p].uid].statusHistory IN
            /\ Len(new) = Len(old) + 2
            /\ SubSeq(new, 1, Len(old)) = old
            /\ {new[Len(old) + 1], new[Len(old) + 2]} = {status_item(args[p]), status_item(args[q])}

C1_NoLostUpdate == []C1_TwoAppends /\ [][C1_AppendStep]_vars

C1_Witness ==
    \E p, q \in Procs :
        /\ C1_BothDone(p, q) /\ pre[q][args[p].uid] = pre[p][args[p].uid]
        /\ status_item(args[p]) # status_item(args[q])
        /\ Len(db[args[p].uid].statusHistory) = Len(pre[p][args[p].uid].statusHistory) + 2

\* C2: no record's statusHistory has two adjacent events with the same
\* status, whatever appendStatus calls the callers interleave.
NoAdjacentSame(h) == \A k \in 1..(Len(h) - 1) : h[k].status # h[k + 1].status

C2_NoRepeatedStatus == \A i \in Ids : db[i].exists => NoAdjacentSame(db[i].statusHistory)

\* C3: a bulk import is atomic to readers.  No step of an import other than
\* its commit changes the committed table, which is all that people_list and
\* person_get_key of another caller read; the commit replaces the deleted
\* rows by the complete imported set in one step; a failed import changes
\* nothing.  So a caller that lists the ids while one import runs sees the
\* complete set of before the import or the complete imported set.
ImportPcs == {"im_delete", "im_convert", "im_insert"}

OwnImportStep(p) ==
    /\ pc[p] \in ImportPcs
    /\ \/ pc'[p] # pc[p]
       \/ tx'[p].deleted # tx[p].deleted
       \/ tx'[p].inserted # tx[p].inserted

ImportedIds(p) == {people_of(ImportData[args[p].data])[k].id :
                       k \in 1..Len(people_of(ImportData[args[p].data]))}

ImportedDoc(p, i) ==
    LET people == people_of(ImportData[args[p].data]) IN
    people[CHOOSE k \in 1..Len(people) : people[k].id = i].doc

C3_ImportStep ==
    \A p \in Procs :
        OwnImportStep(p) =>
            IF pc'[p] = "done" /\ result'[p] = "ok"
            THEN \A i \in Ids :
                    db'[i] = IF i \in ImportedIds(p) THEN ImportedDoc(p, i)
                             ELSE IF i \in tx[p].deleted THEN NoRow ELSE db[i]
            ELSE db' = db

C3_Observed ==
    \A p, r \in Procs :
        /\ p # r
        /\ args[p].op = "import" /\ pc[p] \in ImportPcs \cup {"done"}
        /\ Done(r, "list")
        /\ \A q \in Procs \ {p, r} : pc[q] = "idle"
        => \/ seen[r] = Roster(pre[p])
           \/ pc[p] = "done" /\ result[p] = "ok" /\ seen[r] = ImportedIds(p)

C3_ImportAtomic == []C3_Observed /\ [][C3_ImportStep]_vars

C3_Witness ==
    \E p, r \in Procs :
        /\ pc[p] = "im_insert" /\ tx[p].deleted # {} /\ tx[p].inserted >= 1
        /\ Done(r, "list") /\ pre[r] = db
        /\ seen[r] = tx[p].deleted /\ Cardinality(seen[r]) = 2

\* C4: the add command (createWithInitialStatus) for an absent id, with
\* status guest or invited and by a roster id, succeeds and leaves the record
\* with exactly one status event carrying that status and that by.
C4_CreateSucceeds ==
    \A p \in Procs :
        /\ Done(p, "create")
        /\ ~pre[p][args[p].uid].exists
        /\ args[p].status \in {"guest", "invited"}
        /\ args[p].by \in Roster(pre[p])
        => /\ result[p] = "ok"
           /\ db[args[p].uid].exists
           /\ Len(db[args[p].uid].statusHistory) = 1
           /\ db[args[p].uid].statusHistory[1].status = args[p].status
           /\ db[args[p].uid].statusHistory[1].by = args[p].by

\* C5: when the add command fails after it created the empty record, the
\* record is deleted again: once the command is over the id is absent or its
\* statusHistory is non-empty.
C5_NoEmptyRecordLeft ==
    \A p \in Procs :
        /\ Done(p, "create")
        /\ ~pre[p][args[p].uid].exists
        /\ result[p] # "ok"
        => \/ ~db[args[p].uid].exists
           \/ db[args[p].uid].statusHistory # <<>>

\* C6: with no concurrent caller, appendStatus with the status of the
\* record's last event (and otherwise valid arguments) fails with the
\* same-status ValueError (InvalidState) and leaves the record unchanged.
C6_Case(p) ==
    /\ Done(p, "appendStatus")
    /\ validate_status(args[p].status, args[p].reason) = "ok"
    /\ args[p].by \in Roster(pre[p])
    /\ pre[p][args[p].uid].exists
    /\ pre[p][args[p].uid].statusHistory # <<>>
    /\ Last(pre[p][args[p].uid].statusHistory).status = args[p].status

C6_SameStatusRejected ==
    \A p \in Procs :
        C6_Case(p) => result[p] = "ValueError:same" /\ db = pre[p]

C6_Witness ==
    \E p \in Procs :
        /\ C6_Case(p)
        /\ Len(pre[p][args[p].uid].statusHistory) = 2
        /\ result[p] = "ValueError:same"

\* C7: appendStatus accepts a reason exactly when it is required.  For
\* status former or disabled it fails with the reason ValueError
\* (InvalidArgument) unless the reason is an allowed one; for every other
\* allowed status it fails with a ValueError when a reason (a non-empty
\* string) is given; neither failure appends anything; no other argument is
\* rejected for its reason.  Every event of every history has a reason
\* exactly when its status is former or disabled.
C7_Call(p) ==
    LET status == args[p].status
        reason == args[p].reason IN
    IF status \in {"former", "disabled"} /\ reason \notin allowed_reasons
    THEN result[p] = "ValueError:reason" /\ db = pre[p]
    ELSE IF status \notin {"former", "disabled"} /\ Truthy(reason)
    THEN result[p] = "ValueError:noreason" /\ db = pre[p]
    ELSE result[p] \notin {"ValueError:reason", "ValueError:noreason"}

C7_Events ==
    \A i \in Ids : \A k \in 1..Len(db[i].statusHistory) :
        LET e == db[i].statusHistory[k] IN
        (e.reason # None) <=> (e.status \in {"former", "disabled"})

C7_ReasonIffRequired ==
    /\ \A p \in Procs :
          Done(p, "appendStatus") /\ args[p].status \in allowed_statuses => C7_Call(p)
    /\ C7_Events

C7_Witness ==
    \E p \in Procs :
        /\ Done(p, "appendStatus")
        /\ args[p].status = "later" /\ args[p].reason = "vetoed"
        /\ args[p].by \in Roster(db) /\ db[args[p].uid].exists
        /\ result[p] = "ValueError:noreason"

\* C8: appendStatus fails with the by ValueError (InvalidArgument) and
\* appends nothing whenever by is not a roster id, in every store including
\* the one with no records; every append that succeeds has a by of the roster.
C8_UnknownByRejected ==
    \A p \in Procs :
        Done(p, "appendStatus") /\ validate_status(args[p].status, args[p].reason) = "ok" =>
            IF args[p].by \notin Roster(pre[p])
            THEN result[p] = "ValueError:by" /\ db = pre[p]
            ELSE result[p] # "ValueError:by"

\* C9: person_del_key on an existing record without a value at the key is a
\* no-op: the call returns normally and the document is as before (the key
\* still absent, every other key unchanged).
C9_DeleteAbsentIsNoop ==
    \A p \in Procs :
        /\ Done(p, "delkey")
        /\ pre[p][args[p].uid].exists
        /\ ~HasPath(pre[p][args[p].uid], args[p].key)
        => result[p] = "ok" /\ db = pre[p]

\* C10: add fails with the exists ValueError (AlreadyExists) exactly when the
\* id is present, changing nothing; when the id is absent, in every store
\* including the empty one, it succeeds and creates {statusHistory: []}; two
\* overlapping adds of one absent id never both succeed.
C10_AddExactlyWhenAbsent ==
    /\ \A p \in Procs :
          Done(p, "add") =>
             IF pre[p][args[p].uid].exists
             THEN result[p] = "ValueError:exists" /\ db = pre[p]
             ELSE result[p] = "ok" /\ db[args[p].uid] = Doc(<<>>, NoFields)
    /\ \A p, q \in Procs :
          /\ p # q /\ Done(p, "add") /\ Done(q, "add")
          /\ args[p].uid = args[q].uid
          /\ ~pre[p][args[p].uid].exists /\ ~pre[q][args[p].uid].exists
          => ~(result[p] = "ok" /\ result[q] = "ok")

\* ------------------------------------------------------ converter claims
\* The k-th call made was PersonConverter.get_version from one version to
\* the other and returned a document.
PersonCall(k, from, to) ==
    /\ conv.cls = "PersonConverter"
    /\ k <= Len(conv.calls)
    /\ conv.calls[k].from = from /\ conv.calls[k].to = to
    /\ conv.calls[k].out.err = "none"

PeopleCall(k, from, to) ==
    /\ conv.cls = "PeopleConverter"
    /\ k <= Len(conv.calls)
    /\ conv.calls[k].from = from /\ conv.calls[k].to = to
    /\ conv.calls[k].out.err = "none"

CallIndex == 1..MaxConversions
Given(k) == conv.calls[k].given
Out(k) == conv.calls[k].out.doc

\* C11: a v2 document with status 'vetoed', invitedBy b and join_date d
\* converts to statusHistory [{later, by b}, {former, by b, date d, reason
\* vetoed}].
C11_VetoedHistory ==
    \A k \in CallIndex :
        (/\ PersonCall(k, 2, 3)
         /\ Has(Given(k), "status") /\ Given(k)["status"] = "vetoed"
         /\ Has(Given(k), "invitedBy") /\ Has(Given(k), "join_date"))
        => Out(k)["statusHistory"] =
             << ("status" :> "later") @@ ("by" :> Given(k)["invitedBy"]),
                ("status" :> "former") @@ ("by" :> Given(k)["invitedBy"])
                  @@ ("date" :> Given(k)["join_date"]) @@ ("reason" :> "vetoed") >>

\* C12: a v2 document without a status key, whatever its other keys,
\* converts to a statusHistory of exactly one event, whose status is 'later'.
C12_DefaultLater ==
    \A k \in CallIndex :
        (PersonCall(k, 2, 3) /\ ~Has(Given(k), "status"))
        => /\ Len(Out(k)["statusHistory"]) = 1
           /\ Has(Out(k)["statusHistory"][1], "status")
           /\ Out(k)["statusHistory"][1]["status"] = "later"

C12_Witness ==
    /\ PersonCall(1, 2, 3)
    /\ ~Has(Given(1), "status")
    /\ Has(Given(1), "invitedBy") /\ Has(Given(1), "join_date")
    /\ Out(1)["statusHistory"] =
         << ("status" :> "later") @@ ("by" :> "b1") @@ ("date" :> DateStr(3, 0)) >>

\* C13: a v3 document whose last event is 'later' with a date converts to
\* status 'postfreeze' when that date is strictly after the cutoff and to
\* 'later' otherwise (also at the cutoff), whatever the earlier events are.
LastLaterDated(h) ==
    /\ h # <<>>
    /\ Has(Last(h), "status") /\ Last(h)["status"] = "later"
    /\ Has(Last(h), "date")

C13_PostfreezeAfterCutoff ==
    \A k \in CallIndex :
        (/\ PersonCall(k, 3, 2)
         /\ Has(Given(k), "statusHistory")
         /\ LastLaterDated(Given(k)["statusHistory"]))
        => /\ Has(Out(k), "status")
           /\ Out(k)["status"] =
                IF parse_date(Last(Given(k)["statusHistory"])["date"]) > cutoff
                THEN "postfreeze" ELSE "later"

\* the last event is dated at the cutoff, written with another UTC offset,
\* and an earlier event is dated after it
C13_Witness ==
    /\ PersonCall(1, 3, 2)
    /\ Has(Given(1), "statusHistory")
    /\ Len(Given(1)["statusHistory"]) = 2
    /\ Given(1)["statusHistory"][1] = (("status" :> "later") @@ ("date" :> DateStr(3, 0)))
    /\ LastLaterDated(Given(1)["statusHistory"])
    /\ Last(Given(1)["statusHistory"])["date"] = DateStr(3, 1)
    /\ Out(1)["status"] = "later"

\* C14: a v3 document with exactly one event of status s, converted to v2
\* and back to v3, has a last event of status s for founding, invited, later
\* and former with a reason other than vetoed, and of status former for
\* guest and disabled.
C14_Case(s) ==
    /\ PersonCall(1, 3, 2) /\ PersonCall(2, 2, 3)
    /\ Has(Given(1), "statusHistory")
    /\ Len(Given(1)["statusHistory"]) = 1
    /\ Has(Given(1)["statusHistory"][1], "status")
    /\ Given(1)["statusHistory"][1]["status"] = s

C14_Vetoed ==
    /\ Has(Given(1)["statusHistory"][1], "reason")
    /\ Given(1)["statusHistory"][1]["reason"] = "vetoed"

C14_RoundTripStatus ==
    \A s \in allowed_statuses :
        (C14_Case(s) /\ ~(s = "former" /\ C14_Vetoed))
        => /\ Out(2)["statusHistory"] # <<>>
           /\ Has(Last(Out(2)["statusHistory"]), "status")
           /\ Last(Out(2)["statusHistory"])["status"] =
                IF s \in {"guest", "disabled"} THEN "former" ELSE s

C14_Witness ==
    /\ C14_Case("guest")
    /\ Out(1)["status"] = "former"
    /\ Len(Out(2)["statusHistory"]) = 2
    /\ Last(Out(2)["statusHistory"]) = ("status" :> "former")

\* C15: v3 to v2 makes the last nick the v2 'minecraft' and the earlier
\* nicks, in order, 'minecraft_previous'; a v2 document's minecraft and
\* minecraft_previous are unchanged by v2 to v3 to v2.
Previous(v2) == IF Has(v2, "minecraft_previous") THEN v2["minecraft_previous"] ELSE <<>>
Front(s) == SubSeq(s, 1, Len(s) - 1)

C15_LastNickIsCurrent ==
    /\ \A k \in CallIndex :
         (/\ PersonCall(k, 3, 2)
          /\ Has(Given(k), "minecraft") /\ Has(Given(k)["minecraft"], "nicks")
          /\ Given(k)["minecraft"]["nicks"] # <<>>)
         => /\ Has(Out(k), "minecraft")
            /\ Out(k)["minecraft"] = Last(Given(k)["minecraft"]["nicks"])
            /\ Previous(Out(k)) = Front(Given(k)["minecraft"]["nicks"])
    /\ (PersonCall(1, 2, 3) /\ PersonCall(2, 3, 2) /\ Has(Given(1), "minecraft"))
       => /\ Has(Out(2), "minecraft")
          /\ Out(2)["minecraft"] = Given(1)["minecraft"]
          /\ Previous(Out(2)) = Previous(Given(1))

\* C16: v3 to v2 sets fav_item to the tunnelItem of the first base entry that
\* has one; later entries do not override it.
C16_FirstTunnelItem ==
    \A k \in CallIndex :
        (/\ PersonCall(k, 3, 2)
         /\ Has(Given(k), "base")
         /\ \E i \in 1..Len(Given(k)["base"]) : Has(Given(k)["base"][i], "tunnelItem"))
        => LET base == Given(k)["base"]
               first == CHOOSE i \in 1..Len(base) :
                           /\ Has(base[i], "tunnelItem")
                           /\ \A j \in 1..(i - 1) : ~Has(base[j], "tunnelItem") IN
           /\ Has(Out(k), "fav_item")
           /\ Out(k)["fav_item"] = base[first]["tunnelItem"]

\* C17: v2 to v3 gives each record _peopleV2Order equal to its zero-based
\* position, and v2 to v3 to v2 of a roster with distinct ids returns the
\* same ids in the same order; a v3 roster in which some record lacks
\* _peopleV2Order comes out ordered by ascending SORT_DATE.
IdsOf(v2_people) == [k \in 1..Len(v2_people) |-> v2_people[k]["id"]]
SortDateOf(people, wmbid) ==
    LET entry == CHOOSE e \in {people[k] : k \in 1..Len(people)} : e.id = wmbid IN
    Person_convert_v3_v2(wmbid, entry.doc).doc["SORT_DATE"]

C17_OrderStable ==
    /\ PeopleCall(1, 2, 3)
       => \A i \in 1..Len(Out(1).people) :
             /\ Out(1).people[i].id = Given(1).people[i]["id"]
             /\ Out(1).people[i].doc["_peopleV2Order"] = i - 1
    /\ (PeopleCall(1, 2, 3) /\ PeopleCall(2, 3, 2))
       => IdsOf(Out(2).people) = IdsOf(Given(1).people)
    /\ \A k \in CallIndex :
         (/\ PeopleCall(k, 3, 2)
          /\ \E i \in 1..Len(Given(k).people) : ~Has(Given(k).people[i].doc, "_peopleV2Order"))
         => LET out == IdsOf(Out(k).people) IN
            /\ Len(out) = Len(Given(k).people)
            /\ {out[i] : i \in 1..Len(out)} = {Given(k).people[i].id : i \in 1..Len(out)}
            /\ \A i, j \in 1..Len(out) :
                 i < j => SortDateOf(Given(k).people, out[i]) <= SortDateOf(Given(k).people, out[j])

\* a round trip of a roster whose first record joined after its second
C17_Witness ==
    /\ PeopleCall(1, 2, 3) /\ PeopleCall(2, 3, 2)
    /\ Len(Given(1).people) = 2
    /\ Has(Given(1).people[1], "join_date") /\ Given(1).people[1]["join_date"] = DateStr(3, 0)
    /\ Has(Given(1).people[2], "join_date") /\ Given(1).people[2]["join_date"] = DateStr(1, 0)
    /\ IdsOf(Out(2).people) = IdsOf(Given(1).people)

\* C18: in v3 to v2, join_date and invitedBy come from one event, the first
\* event of statusHistory that carries a date.
C18_JoinFromOneEvent ==
    \A k \in CallIndex :
        (/\ PersonCall(k, 3, 2)
         /\ Has(Out(k), "join_date") /\ Has(Out(k), "invitedBy"))
        => LET h == Given(k)["statusHistory"] IN
           \E i \in 1..Len(h) :
              /\ Has(h[i], "date")
              /\ \A j \in 1..(i - 1) : ~Has(h[j], "date")
              /\ h[i]["date"] = Out(k)["join_date"]
              /\ Has(h[i], "by")
              /\ h[i]["by"] = Out(k)["invitedBy"]

\* C19: a conversion between versions leaves the document it was given with
\* exactly the keys and values it had.
C19_InputUnchanged ==
    \A k \in CallIndex :
        (PersonCall(k, 2, 3) \/ PersonCall(k, 3, 2) \/ PeopleCall(k, 2, 3) \/ PeopleCall(k, 3, 2))
        => conv.calls[k].after = Given(k)

\* C20: no store operation blocks forever: under fair scheduling every
\* started setkey, delkey, status append and import eventually returns, with
\* success or an error, holding no row lock and no open transaction (also
\* when the modification function fails under the lock); a caller at rest
\* holds nothing, and while an operation is under way some caller can step.
Started(p) == pc[p] \notin {"idle", "done", "exited"}
HoldsNothing(p) == tx[p] = NoTx /\ \A i \in Ids : lock[i] # p
Finished(p) == pc[p] = "done" /\ HoldsNothing(p)

NothingHeldAtRest == \A p \in Procs : ~Started(p) => HoldsNothing(p)
SomeoneCanStep == (\E p \in Procs : Started(p)) => ENABLED (\E p \in Procs : Proceed(p))

C20_NoOperationBlocksForever ==
    /\ [](NothingHeldAtRest /\ SomeoneCanStep)
    /\ \A p \in Procs : Started(p) ~> Finished(p)

\* two imports deadlocked on each other's inserted rows; one was ended by
\* the deadlock check and the other then committed
C20_Witness ==
    \E p, q \in Procs :
        /\ Done(p, "import") /\ result[p] = "TransactionRollbackError"
        /\ Done(q, "import") /\ result[q] = "ok"
        /\ HoldsNothing(p) /\ HoldsNothing(q)
        /\ \A i \in Ids : db[i] = ImportedDoc(q, i)

====
